---- MODULE Spec2Model ----
(***************************************************************************)
(* Content review workflow of Agent/agentframework/agentframework_workflow *)
(* .py: the ReviewResult verdict, the two edge conditions needs_editing    *)
(* and is_approved, the WorkflowBuilder chain that wires the five agents,  *)
(* and a run of the built workflow.                                        *)
(***************************************************************************)
EXTENDS Integers, Sequences, FiniteSets, TLC

VARIABLES
    message,        \* PredSpec: the argument handed to the two conditions
    approvedRes,    \* PredSpec: outcome of is_approved(message), or "unset"
    editingRes,     \* PredSpec: outcome of needs_editing(message), or "unset"
    pc,             \* index of the next call of the WorkflowBuilder chain
    executors,      \* names registered with register_agent
    start_executor, \* name given to set_start_executor, or "none"
    edges,          \* edges added with add_edge: [src, dst, cond]
    built,          \* TRUE once .build() has returned the workflow
    status,         \* run: "idle", "running", "done" or "failed"
    inflight,       \* run: messages sent and not yet consumed: [src, dst]
    delivered,      \* run: every [src, dst] a message has been sent along
    trace,          \* run: the agents that executed, in order
    reviewMsg,      \* run: the Reviewer's response, NoMessage before it
    failedNode,     \* run: the agent whose execution failed, or "none"
    parses,         \* run: calls of ReviewResult.model_validate_json
    chatPc,         \* chat: "input", "call", "stream", "call_failed", "exited"
    messages,       \* chat: the list messages of chat_history.py
    bot_response,   \* chat: the answer accumulated from the stream
    events,         \* chat: the events the current stream has yielded
    ingPc,          \* ingestion: "extract", "embed", "write", "done", "crashed"
    fileIdx,        \* ingestion: index in filenames of the file in work
    file_chunks,    \* ingestion: the chunks of the file in work
    all_chunks,     \* ingestion: the chunks of the files done
    outFile         \* ingestion: rag_ingested_chunks.json as this run left it

vars == <<message, approvedRes, editingRes, pc, executors, start_executor,
          edges, built, status, inflight, delivered, trace, reviewMsg,
          failedNode, parses, chatPc, messages, bot_response, events,
          ingPc, fileIdx, file_chunks, all_chunks, outFile>>

predVars == <<message, approvedRes, editingRes>>
buildVars == <<pc, executors, start_executor, edges, built>>
runVars == <<status, inflight, delivered, trace, reviewMsg, failedNode, parses>>
chatVars == <<chatPc, messages, bot_response, events>>
ingestVars == <<ingPc, fileIdx, file_chunks, all_chunks, outFile>>
\* the state of the two scripts that share nothing with the workflow
peerVars == <<chatVars, ingestVars>>

----------------------------------------------------------------------------
(* Bounds of the model *)

\* questions asked in the chat loop
MaxTurns == 2

\* events a response stream yields
MaxEvents == 2

\* chunks the splitter makes of one file
MaxChunks == 2

\* integer scores are drawn from 80 - ScoreRadius .. 80 + ScoreRadius, plus
\* the ends of the documented range and the first values outside it
ScoreRadius == 2

----------------------------------------------------------------------------
(* JSON values of the reviewer's payload *)

\* A JSON value under a key: t is its JSON type, v the number it denotes.
\*   "absent"    the key is missing
\*   "null"      null
\*   "int"       the integer v
\*   "float"     the float v.0
\*   "fracfloat" the float v.5
\*   "numstr"    the string of the decimal digits of v
\*   "str"       a string that is not a number
\*   "bool"      true (v = 1) or false (v = 0)
JV(t, v) == [t |-> t, v |-> v]

Absent == JV("absent", 0)

ScoreInts == ((80 - ScoreRadius)..(80 + ScoreRadius)) \cup {-1, 0, 100, 101}

ScoreValues ==
    {JV("int", n) : n \in ScoreInts}
        \cup {Absent, JV("null", 0), JV("float", 80), JV("fracfloat", 79),
              JV("numstr", 79), JV("str", 0), JV("bool", 1)}

SubScoreValues == {JV("int", 0), JV("int", 101), Absent, JV("str", 0)}

FeedbackValues == {JV("str", 0), Absent, JV("int", 5)}

IntFields == {"score", "clarity", "completeness", "accuracy", "structure"}

\* A message handed to an edge condition.
\*   kind "other"     not an AgentExecutorResponse
\*   kind "notjson"   an AgentExecutorResponse whose text is not JSON
\*   kind "nonobject" an AgentExecutorResponse whose text is JSON, not an object
\*   kind "object"    an AgentExecutorResponse whose text is a JSON object
Msg(kind, s, f, c1, c2, c3, c4) ==
    [kind |-> kind, score |-> s, feedback |-> f, clarity |-> c1,
     completeness |-> c2, accuracy |-> c3, structure |-> c4]

Plain(kind) == Msg(kind, Absent, Absent, Absent, Absent, Absent, Absent)

ObjectMessages ==
    {Msg("object", s, f, c1, c2, c3, c4) :
        s \in ScoreValues, f \in FeedbackValues,
        c1 \in SubScoreValues, c2 \in SubScoreValues,
        c3 \in SubScoreValues, c4 \in SubScoreValues}

\* what an agent can answer: always wrapped in an AgentExecutorResponse
ResponseMessages == ObjectMessages \cup {Plain("notjson"), Plain("nonobject")}

\* what a condition can be handed
Messages == ResponseMessages \cup {Plain("other")}

NoMessage == Plain("none")

----------------------------------------------------------------------------
(* ReviewResult and its validation *)

\* pydantic validation of a JSON value against an `int` field (lax mode, the
\* mode of model_validate_json): integers, floats without a fractional part,
\* numeric strings and booleans are taken as integers; anything else fails.
IntFieldOk(x) == x.t \in {"int", "float", "numstr", "bool"}

\* validation of a JSON value against a `str` field: only strings pass
StrFieldOk(x) == x.t \in {"str", "numstr"}

\* ReviewResult with the documented range enforced on its int fields
ReviewResultOkBounded(m) ==
    /\ \A k \in IntFields : IntFieldOk(m[k]) /\ m[k].v \in 0..100
    /\ StrFieldOk(m.feedback)

\* class ReviewResult(BaseModel): five int fields and feedback: str, all
\* required, none with a range constraint
ReviewResultOk(m) ==
    /\ \A k \in IntFields : IntFieldOk(m[k])
    /\ StrFieldOk(m.feedback)

\* ReviewResult.model_validate_json(text): raised is TRUE when it raises
\* ValidationError, else review holds the validated integer fields
model_validate_json(m) ==
    IF m.kind = "object" /\ ReviewResultOk(m)
    THEN [raised |-> FALSE, review |-> [k \in IntFields |-> m[k].v]]
    ELSE [raised |-> TRUE, review |-> [k \in IntFields |-> 0]]

isinstance_AgentExecutorResponse(m) == m.kind \in {"notjson", "nonobject", "object"}

Bool(b) == IF b THEN "True" ELSE "False"

\* needs_editing with the threshold made inclusive
needs_editing_inclusive(m) ==
    IF ~isinstance_AgentExecutorResponse(m) THEN "False"
    ELSE LET r == model_validate_json(m) IN
         IF r.raised THEN "False" ELSE Bool(r.review.score <= 80)

\* needs_editing with the except branch inverted (fail-closed)
needs_editing_failclosed(m) ==
    IF ~isinstance_AgentExecutorResponse(m) THEN "False"
    ELSE LET r == model_validate_json(m) IN
         IF r.raised THEN "True" ELSE Bool(r.review.score < 80)

\* is_approved with the threshold made exclusive
is_approved_exclusive(m) ==
    IF ~isinstance_AgentExecutorResponse(m) THEN "True"
    ELSE LET r == model_validate_json(m) IN
         IF r.raised THEN "True" ELSE Bool(r.review.score > 80)

\* is_approved without the try/except: the ValidationError leaves the function
is_approved_unguarded(m) ==
    IF ~isinstance_AgentExecutorResponse(m) THEN "True"
    ELSE LET r == model_validate_json(m) IN
         IF r.raised THEN "Raise" ELSE Bool(r.review.score >= 80)

\* def needs_editing(message): "True", "False", or "Raise" when an exception
\* leaves the function
needs_editing(m) ==
    IF ~isinstance_AgentExecutorResponse(m) THEN "False"
    ELSE LET r == model_validate_json(m) IN
         IF r.raised THEN "False" ELSE Bool(r.review.score < 80)

\* def is_approved(message)
is_approved(m) ==
    IF ~isinstance_AgentExecutorResponse(m) THEN "True"
    ELSE LET r == model_validate_json(m) IN
         IF r.raised THEN "True" ELSE Bool(r.review.score >= 80)

----------------------------------------------------------------------------
(* Initial states of chat_history.py and document_ingestion.py *)

ChatMessage(role, content) == [role |-> role, content |-> content]

\* messages = [{"role": "system", "content": "I am a large language model."}]
SystemMessage == ChatMessage("system", <<"I am a large language model.">>)

ChatInit ==
    /\ chatPc = "input"
    /\ messages = <<SystemMessage>>
    /\ bot_response = <<>>
    /\ events = <<>>

\* no output file has been opened for writing
NoFile == [written |-> FALSE, data |-> <<>>]

IngestInit ==
    /\ ingPc = "extract"
    /\ fileIdx = 1
    /\ file_chunks = <<>>
    /\ all_chunks = <<>>
    /\ outFile = NoFile

----------------------------------------------------------------------------
(* PredSpec: the two conditions applied to any message *)

BuildInit ==
    /\ pc = 1
    /\ executors = {}
    /\ start_executor = "none"
    /\ edges = {}
    /\ built = FALSE

RunInit ==
    /\ status = "idle"
    /\ inflight = {}
    /\ delivered = {}
    /\ trace = <<>>
    /\ reviewMsg = NoMessage
    /\ failedNode = "none"
    /\ parses = 0

PredInit ==
    /\ message \in Messages
    /\ approvedRes = "unset"
    /\ editingRes = "unset"
    /\ BuildInit
    /\ RunInit
    /\ ChatInit
    /\ IngestInit

EvalIsApproved ==
    /\ approvedRes = "unset"
    /\ approvedRes' = is_approved(message)
    /\ UNCHANGED <<message, editingRes, buildVars, runVars, peerVars>>

EvalNeedsEditing ==
    /\ editingRes = "unset"
    /\ editingRes' = needs_editing(message)
    /\ UNCHANGED <<message, approvedRes, buildVars, runVars, peerVars>>

PredNext == EvalIsApproved \/ EvalNeedsEditing

PredSpec == PredInit /\ [][PredNext]_vars

----------------------------------------------------------------------------
(* The WorkflowBuilder chain, executed once when the module is loaded *)

Call(op, a, b, cond) == [op |-> op, a |-> a, b |-> b, cond |-> cond]

\* the chain with the Editor wired past the Publisher
ChainEditorSkipsPublisher ==
    << Call("register_agent", "Writer", "", "none"),
       Call("register_agent", "Reviewer", "", "none"),
       Call("register_agent", "Editor", "", "none"),
       Call("register_agent", "Publisher", "", "none"),
       Call("register_agent", "Summarizer", "", "none"),
       Call("set_start_executor", "Writer", "", "none"),
       Call("add_edge", "Writer", "Reviewer", "none"),
       Call("add_edge", "Reviewer", "Publisher", "is_approved"),
       Call("add_edge", "Reviewer", "Editor", "needs_editing"),
       Call("add_edge", "Editor", "Summarizer", "none"),
       Call("add_edge", "Publisher", "Summarizer", "none"),
       Call("build", "", "", "none") >>

\* the chain without the edge on which the edited path converges
ChainNoConvergence ==
    << Call("register_agent", "Writer", "", "none"),
       Call("register_agent", "Reviewer", "", "none"),
       Call("register_agent", "Editor", "", "none"),
       Call("register_agent", "Publisher", "", "none"),
       Call("register_agent", "Summarizer", "", "none"),
       Call("set_start_executor", "Writer", "", "none"),
       Call("add_edge", "Writer", "Reviewer", "none"),
       Call("add_edge", "Reviewer", "Publisher", "is_approved"),
       Call("add_edge", "Reviewer", "Editor", "needs_editing"),
       Call("add_edge", "Publisher", "Summarizer", "none"),
       Call("build", "", "", "none") >>

\* workflow = WorkflowBuilder(...).register_agent(...) ... .build()
Chain ==
    << Call("register_agent", "Writer", "", "none"),
       Call("register_agent", "Reviewer", "", "none"),
       Call("register_agent", "Editor", "", "none"),
       Call("register_agent", "Publisher", "", "none"),
       Call("register_agent", "Summarizer", "", "none"),
       Call("set_start_executor", "Writer", "", "none"),
       Call("add_edge", "Writer", "Reviewer", "none"),
       Call("add_edge", "Reviewer", "Publisher", "is_approved"),
       Call("add_edge", "Reviewer", "Editor", "needs_editing"),
       Call("add_edge", "Editor", "Publisher", "none"),
       Call("add_edge", "Publisher", "Summarizer", "none"),
       Call("build", "", "", "none") >>

Edge(src, dst, cond) == [src |-> src, dst |-> dst, cond |-> cond]

AtCall(op) == ~built /\ pc <= Len(Chain) /\ Chain[pc].op = op

RegisterAgent ==
    /\ AtCall("register_agent")
    /\ executors' = executors \cup {Chain[pc].a}
    /\ pc' = pc + 1
    /\ UNCHANGED <<start_executor, edges, built, predVars, runVars, peerVars>>

SetStartExecutor ==
    /\ AtCall("set_start_executor")
    /\ start_executor' = Chain[pc].a
    /\ pc' = pc + 1
    /\ UNCHANGED <<executors, edges, built, predVars, runVars, peerVars>>

AddEdge ==
    /\ AtCall("add_edge")
    /\ edges' = edges \cup {Edge(Chain[pc].a, Chain[pc].b, Chain[pc].cond)}
    /\ pc' = pc + 1
    /\ UNCHANGED <<executors, start_executor, built, predVars, runVars, peerVars>>

Build ==
    /\ AtCall("build")
    /\ built' = TRUE
    /\ pc' = pc + 1
    /\ UNCHANGED <<executors, start_executor, edges, predVars, runVars, peerVars>>

----------------------------------------------------------------------------
(* A run of the built workflow *)

Link(src, dst) == [src |-> src, dst |-> dst]

\* the outcome of an edge's condition on the message sent along it
Condition(cond, m) ==
    CASE cond = "is_approved" -> is_approved(m)
      [] cond = "needs_editing" -> needs_editing(m)
      [] OTHER -> "True"

OutEdges(n) == {e \in edges : e.src = n}

\* routing that ignores the conditions of the edges
TargetsUnconditional(n, m) == OutEdges(n)

\* routing in which the first condition that holds hides the Editor branch
TargetsApprovedOnly(n, m) ==
    {e \in OutEdges(n) : Condition(e.cond, m) = "True" /\ e.dst # "Editor"}

\* the edges of n along which its response m is sent on
Targets(n, m) == {e \in OutEdges(n) : Condition(e.cond, m) = "True"}

\* an exception leaving a condition reaches the runner
ConditionRaises(n, m) == \E e \in OutEdges(n) : Condition(e.cond, m) = "Raise"

\* routing that deserializes the response once for both conditions
ParseCallsShared(n, m) ==
    IF \E e \in OutEdges(n) :
          e.cond # "none" /\ isinstance_AgentExecutorResponse(m)
    THEN 1 ELSE 0

\* calls of ReviewResult.model_validate_json made while routing m from n
ParseCalls(n, m) ==
    Cardinality({e \in OutEdges(n) :
        e.cond # "none" /\ isinstance_AgentExecutorResponse(m)})

\* what the agent n can answer: the Reviewer's text is the model's reply in
\* the ReviewResult response format, the other agents answer with a draft
Responses(n) == IF n = "Reviewer" THEN ResponseMessages ELSE {Plain("notjson")}

\* serve(entities=[workflow]): a request starts a run at the start executor
StartRun ==
    /\ built
    /\ status = "idle"
    /\ status' = "running"
    /\ inflight' = {Link("input", start_executor)}
    /\ UNCHANGED <<delivered, trace, reviewMsg, failedNode, parses,
                   predVars, buildVars, peerVars>>

\* a runner that puts the message back and runs the agent again
AfterFailureRetry(n, msg) ==
    [status |-> "running", inflight |-> inflight]

\* the state of the run after the execution of n, triggered by msg, failed:
\* nothing catches the error and nothing runs the agent again
AfterFailure(n, msg) ==
    [status |-> "failed", inflight |-> inflight \ {msg}]

\* the agent n consumes a message, answers m, and m is sent along the edges
\* of n whose condition holds
Execute(n) ==
    /\ status = "running"
    /\ \E msg \in inflight :
        /\ msg.dst = n
        /\ \E m \in Responses(n) :
            /\ trace' = Append(trace, n)
            /\ reviewMsg' = IF n = "Reviewer" THEN m ELSE reviewMsg
            /\ parses' = parses + ParseCalls(n, m)
            /\ IF ConditionRaises(n, m)
               THEN /\ status' = AfterFailure(n, msg).status
                    /\ inflight' = AfterFailure(n, msg).inflight
                    /\ failedNode' = n
                    /\ UNCHANGED delivered
               ELSE /\ inflight' = (inflight \ {msg}) \cup
                            {Link(e.src, e.dst) : e \in Targets(n, m)}
                    /\ delivered' = delivered \cup
                            {Link(e.src, e.dst) : e \in Targets(n, m)}
                    /\ UNCHANGED <<status, failedNode>>
    /\ UNCHANGED <<predVars, buildVars, peerVars>>

\* the backing call of agent n errors or times out
Fail(n) ==
    /\ status = "running"
    /\ \E msg \in inflight :
        /\ msg.dst = n
        /\ trace' = Append(trace, n)
        /\ failedNode' = n
        /\ status' = AfterFailure(n, msg).status
        /\ inflight' = AfterFailure(n, msg).inflight
    /\ UNCHANGED <<delivered, reviewMsg, parses, predVars, buildVars, peerVars>>

\* no message is left: the run is over
Finish ==
    /\ status = "running"
    /\ inflight = {}
    /\ status' = "done"
    /\ UNCHANGED <<inflight, delivered, trace, reviewMsg, failedNode, parses,
                   predVars, buildVars, peerVars>>

Init ==
    /\ message = NoMessage
    /\ approvedRes = "unset"
    /\ editingRes = "unset"
    /\ BuildInit
    /\ RunInit
    /\ ChatInit
    /\ IngestInit

ExecuteSome == \E n \in executors : Execute(n)

FailSome == \E n \in executors : Fail(n)

Next ==
    \/ RegisterAgent
    \/ SetStartExecutor
    \/ AddEdge
    \/ Build
    \/ StartRun
    \/ ExecuteSome
    \/ FailSome
    \/ Finish

Spec == Init /\ [][Next]_vars

\* every awaited agent call returns or raises, and the runner goes on while a
\* message is pending
FairSpec == Spec /\ WF_vars(ExecuteSome) /\ WF_vars(Finish)

----------------------------------------------------------------------------
(* The chat loop of Chat/chat_history.py. A text is a sequence of tokens. *)

\* what input() can return: the empty line or a question
Questions == {<<>>, <<"q">>}

\* a stream event: choices is FALSE when event.choices is empty, isNone is
\* TRUE when delta.content is None, content is the text of delta.content
Event(choices, isNone, content) ==
    [choices |-> choices, isNone |-> isNone, content |-> content]

Events ==
    {Event(FALSE, TRUE, <<>>), Event(TRUE, TRUE, <<>>), Event(TRUE, FALSE, <<>>),
     Event(TRUE, FALSE, <<"a">>), Event(TRUE, FALSE, <<"b">>)}

\* the loop body of the stream where the content replaces the answer
AccumulateOverwrite(bot, e) ==
    IF e.choices /\ ~e.isNone /\ e.content # <<>> THEN e.content ELSE bot

\* the loop body of the stream where the content is put in front
AccumulatePrepend(bot, e) ==
    IF e.choices /\ ~e.isNone /\ e.content # <<>> THEN e.content \o bot ELSE bot

\* if event.choices and event.choices[0].delta.content: bot_response += content
Accumulate(bot, e) ==
    IF e.choices /\ ~e.isNone /\ e.content # <<>> THEN bot \o e.content ELSE bot

\* question = input(...); messages.append({"role": "user", ...})
AskQuestion ==
    /\ chatPc = "input"
    /\ Len(messages) < 1 + 2 * MaxTurns
    /\ \E question \in Questions :
          messages' = Append(messages, ChatMessage("user", question))
    /\ chatPc' = "call"
    /\ UNCHANGED <<bot_response, events, predVars, buildVars, runVars, ingestVars>>

\* input() raises EOFError or KeyboardInterrupt: the only way out of the loop
InputEnds ==
    /\ chatPc = "input"
    /\ chatPc' = "exited"
    /\ UNCHANGED <<messages, bot_response, events,
                   predVars, buildVars, runVars, ingestVars>>

\* response = client.chat.completions.create(..., stream=True) returns;
\* bot_response = ""
CreateStream ==
    /\ chatPc = "call"
    /\ chatPc' = "stream"
    /\ bot_response' = <<>>
    /\ events' = <<>>
    /\ UNCHANGED <<messages, predVars, buildVars, runVars, ingestVars>>

\* the create call raises, or the stream raises while it is iterated
CallFails ==
    /\ chatPc \in {"call", "stream"}
    /\ chatPc' = "call_failed"
    /\ UNCHANGED <<messages, bot_response, events,
                   predVars, buildVars, runVars, ingestVars>>

\* for event in response: one iteration
StreamEvent ==
    /\ chatPc = "stream"
    /\ Len(events) < MaxEvents
    /\ \E e \in Events :
        /\ events' = Append(events, e)
        /\ bot_response' = Accumulate(bot_response, e)
    /\ UNCHANGED <<chatPc, messages, predVars, buildVars, runVars, ingestVars>>

\* the stream is exhausted: messages.append({"role": "assistant", ...})
StreamEnds ==
    /\ chatPc = "stream"
    /\ messages' = Append(messages, ChatMessage("assistant", bot_response))
    /\ chatPc' = "input"
    /\ UNCHANGED <<bot_response, events, predVars, buildVars, runVars, ingestVars>>

ChatNext ==
    \/ AskQuestion
    \/ InputEnds
    \/ CreateStream
    \/ CallFails
    \/ StreamEvent
    \/ StreamEnds

ChatSpec == Init /\ [][ChatNext]_vars

----------------------------------------------------------------------------
(* The ingestion script RAG/document_ingestion.py *)

filenames ==
    <<"California_carpenter_bee.pdf", "Centris_pallida.pdf",
      "Western_honey_bee.pdf", "Aphideater_hoverfly.pdf">>

\* what client.embeddings.create(...).data[0].embedding can return
Embeddings == {"v1", "v2"}

\* an id numbered like enumerate numbers the chunks, from 0
ChunkIdFromZero(filename, i) == <<filename, "-", i>>

\* f"{filename}-{(i + 1)}": the string, kept as its three parts
ChunkId(filename, i) == <<filename, "-", i + 1>>

\* text.page_content of the i-th document the splitter made of the file
PageContent(filename, i) == <<"page_content", filename, i>>

\* file_chunks = [{"id": ..., "text": ...} for i, text in enumerate(texts)]
NewChunks(filename, n) ==
    [j \in 1..n |->
        [id |-> ChunkId(filename, j - 1), text |-> PageContent(filename, j - 1)]]

HasEmbedding(chunk) == "embedding" \in DOMAIN chunk

\* the chunks of the file in work the embedding loop has not reached
Pending == {j \in 1..Len(file_chunks) : ~HasEmbedding(file_chunks[j])}

Min(S) == CHOOSE x \in S : \A y \in S : x <= y

\* md_text = pymupdf4llm.to_markdown(...); texts = create_documents([md_text]);
\* file_chunks = [...]
ExtractFile ==
    /\ ingPc = "extract"
    /\ \E n \in 0..MaxChunks : file_chunks' = NewChunks(filenames[fileIdx], n)
    /\ ingPc' = "embed"
    /\ UNCHANGED <<fileIdx, all_chunks, outFile,
                   predVars, buildVars, runVars, chatVars>>

\* to_markdown or the splitter raises
ExtractFails ==
    /\ ingPc = "extract"
    /\ ingPc' = "crashed"
    /\ UNCHANGED <<fileIdx, file_chunks, all_chunks, outFile,
                   predVars, buildVars, runVars, chatVars>>

\* file_chunk["embedding"] = client.embeddings.create(...).data[0].embedding
EmbedChunk ==
    /\ ingPc = "embed"
    /\ Pending # {}
    /\ \E v \in Embeddings :
        LET j == Min(Pending)
            c == file_chunks[j]
        IN file_chunks' = [file_chunks EXCEPT
               ![j] = [id |-> c.id, text |-> c.text, embedding |-> v]]
    /\ UNCHANGED <<ingPc, fileIdx, all_chunks, outFile,
                   predVars, buildVars, runVars, chatVars>>

\* client.embeddings.create raises
EmbedFails ==
    /\ ingPc = "embed"
    /\ Pending # {}
    /\ ingPc' = "crashed"
    /\ UNCHANGED <<fileIdx, file_chunks, all_chunks, outFile,
                   predVars, buildVars, runVars, chatVars>>

\* all_chunks.extend(file_chunks), then the next filename or the end of the
\* loop
ExtendAllChunks ==
    /\ ingPc = "embed"
    /\ Pending = {}
    /\ all_chunks' = all_chunks \o file_chunks
    /\ fileIdx' = fileIdx + 1
    /\ ingPc' = IF fileIdx = Len(filenames) THEN "write" ELSE "extract"
    /\ UNCHANGED <<file_chunks, outFile, predVars, buildVars, runVars, chatVars>>

\* with open("rag_ingested_chunks.json", "w") as f: json.dump(all_chunks, f)
WriteFile ==
    /\ ingPc = "write"
    /\ outFile' = [written |-> TRUE, data |-> all_chunks]
    /\ ingPc' = "done"
    /\ UNCHANGED <<fileIdx, file_chunks, all_chunks,
                   predVars, buildVars, runVars, chatVars>>

IngestNext ==
    \/ ExtractFile
    \/ ExtractFails
    \/ EmbedChunk
    \/ EmbedFails
    \/ ExtendAllChunks
    \/ WriteFile

IngestSpec == Init /\ [][IngestNext]_vars

----------------------------------------------------------------------------
(* Properties *)

Range(seq) == {seq[i] : i \in 1..Len(seq)}

Count(seq, x) == Cardinality({i \in 1..Len(seq) : seq[i] = x})

IsPrefix(p, q) == Len(p) <= Len(q) /\ \A i \in 1..Len(p) : p[i] = q[i]

\* m deserializes into a ReviewResult
Parsed(m) == ~model_validate_json(m).raised

\* the overall score of the ReviewResult m deserializes into
Score(m) == model_validate_json(m).review.score

Reviewed == reviewMsg # NoMessage

DirectPath == <<"Writer", "Reviewer", "Publisher", "Summarizer">>

EditedPath == <<"Writer", "Reviewer", "Editor", "Publisher", "Summarizer">>

\* the agents a message from n can reach along the edges
RECURSIVE ReachFrom(_, _)
ReachFrom(S, k) ==
    IF k = 0 THEN S
    ELSE ReachFrom(S \cup {e.dst : e \in {x \in edges : x.src \in S}}, k - 1)

Downstream(n) == ReachFrom({e.dst : e \in OutEdges(n)}, Cardinality(executors))

\* C1: a reviewer response that deserializes into a verdict with overall
\* score >= 80 (80 included) makes is_approved true and needs_editing false,
\* and the run sends the response from the Reviewer to the Publisher only.
C1_ApprovedFrom80 ==
    (Reviewed /\ Parsed(reviewMsg) /\ Score(reviewMsg) >= 80) =>
        /\ is_approved(reviewMsg) = "True"
        /\ needs_editing(reviewMsg) = "False"
        /\ Link("Reviewer", "Publisher") \in delivered
        /\ Link("Reviewer", "Editor") \notin delivered
        /\ "Editor" \notin Range(trace)

\* C1 witness: a verdict with score exactly 80 went Reviewer -> Publisher
C1_Witness ==
    /\ Reviewed
    /\ reviewMsg.score = JV("int", 80)
    /\ Parsed(reviewMsg)
    /\ status = "done"
    /\ trace = DirectPath

\* C2: a payload that deserializes into a verdict with overall score < 80
\* makes needs_editing true and is_approved false, and needs_editing is true
\* exactly when parsing succeeds and the overall score is below 80.
C2_NeedsEditingBelow80 ==
    /\ editingRes # "unset" =>
          (editingRes = "True" <=> (Parsed(message) /\ Score(message) < 80))
    /\ (approvedRes # "unset" /\ Parsed(message) /\ Score(message) < 80) =>
          approvedRes = "False"

\* C2 witness: both conditions evaluated on a verdict with score 79
C2_Witness ==
    /\ message.kind = "object"
    /\ message.score = JV("int", 79)
    /\ Parsed(message)
    /\ editingRes = "True"
    /\ approvedRes = "False"

C4_ExactlyOne ==
    (approvedRes # "unset" /\ editingRes # "unset") =>
        /\ {approvedRes, editingRes} = {"True", "False"}

\* C4 witness: both conditions evaluated on a message that is no
\* AgentExecutorResponse
C4_Witness ==
    /\ message.kind = "other"
    /\ approvedRes # "unset"
    /\ editingRes # "unset"

\* C5: a run takes exactly one path from the Reviewer on: the agents execute
\* in the order Writer, Reviewer, Publisher, Summarizer or Writer, Reviewer,
\* Editor, Publisher, Summarizer; the Reviewer's response is sent along
\* exactly one of its two edges; the Editor executes only when the verdict
\* parsed and its overall score is below 80.
C5_ExactlyOnePath ==
    /\ IsPrefix(trace, DirectPath) \/ IsPrefix(trace, EditedPath)
    /\ status = "done" => trace \in {DirectPath, EditedPath}
    /\ Reviewed =>
          (Link("Reviewer", "Publisher") \in delivered
              <=> Link("Reviewer", "Editor") \notin delivered)
    /\ "Editor" \in Range(trace) =>
          (Parsed(reviewMsg) /\ Score(reviewMsg) < 80)
    /\ (Reviewed /\ Parsed(reviewMsg) /\ Score(reviewMsg) < 80) =>
          Link("Reviewer", "Editor") \in delivered

\* C5 witness: a run that finished along the edited path
C5_Witness ==
    /\ status = "done"
    /\ trace = EditedPath
    /\ Score(reviewMsg) < 80

Incoming(n) == {e \in edges : e.dst = n}

\* C6: the built workflow has exactly the five agents and the five edges
\* Writer->Reviewer, Reviewer->Publisher (is_approved), Reviewer->Editor
\* (needs_editing), Editor->Publisher, Publisher->Summarizer; the Writer is
\* the start executor and the only agent without an incoming edge, the
\* Summarizer the only agent without an outgoing edge.
C6_Graph ==
    built =>
        /\ executors = {"Writer", "Reviewer", "Editor", "Publisher", "Summarizer"}
        /\ edges = {Edge("Writer", "Reviewer", "none"),
                    Edge("Reviewer", "Publisher", "is_approved"),
                    Edge("Reviewer", "Editor", "needs_editing"),
                    Edge("Editor", "Publisher", "none"),
                    Edge("Publisher", "Summarizer", "none")}
        /\ start_executor = "Writer"
        /\ {n \in executors : Incoming(n) = {}} = {"Writer"}
        /\ {n \in executors : OutEdges(n) = {}} = {"Summarizer"}
        /\ \A e \in edges : e.src \in executors /\ e.dst \in executors

\* C6 witness: the chain has run to the end and a run has started
C6_Witness == built /\ status = "running" /\ Cardinality(edges) = 5

\* C7: every agent executes at most once in a run; the Publisher is
\* triggered along one of its two incoming edges only.
C7_AtMostOnce ==
    /\ \A n \in executors : Count(trace, n) <= 1
    /\ ~(Link("Reviewer", "Publisher") \in delivered
            /\ Link("Editor", "Publisher") \in delivered)

\* C7 witness: the Publisher and the Summarizer have executed after the
\* Editor sent its draft to the Publisher
C7_Witness ==
    /\ Link("Editor", "Publisher") \in delivered
    /\ Count(trace, "Publisher") = 1
    /\ Count(trace, "Summarizer") = 1

\* C8: once the execution of an agent has failed the run is aborted: the
\* failed agent is the last one that executed and executed once, no agent
\* downstream of it has executed, and no message is sent on.
C8_FailureAborts ==
    failedNode # "none" =>
        /\ status = "failed"
        /\ trace # <<>> /\ trace[Len(trace)] = failedNode
        /\ Count(trace, failedNode) = 1
        /\ Range(trace) \cap Downstream(failedNode) = {}
        /\ \A l \in delivered : l.src # failedNode
        /\ failedNode \in {"Writer", "Reviewer", "Editor"} =>
              Range(trace) \cap {"Publisher", "Summarizer"} = {}

\* C8 witness: the Editor failed after the Reviewer routed the draft to it
C8_Witness ==
    /\ failedNode = "Editor"
    /\ status = "failed"
    /\ trace = <<"Writer", "Reviewer", "Editor">>

\* C10: every verdict the conditions take as successfully parsed has its
\* five integer fields in 0..100 (the claim as stated; the code does not
\* hold it).
C10_FieldsInRange ==
    (Reviewed /\ Parsed(reviewMsg)) =>
        \A k \in IntFields :
            model_validate_json(reviewMsg).review[k] \in 0..100

\* m is a JSON object whose six fields have types ReviewResult takes
WellTyped(m) ==
    /\ m.kind = "object"
    /\ \A k \in IntFields : IntFieldOk(m[k])
    /\ StrFieldOk(m.feedback)

\* C11: a verdict whose overall score lies outside 0..100 is accepted, not
\* treated as a parse failure: above 100 it is approved and goes from the
\* Reviewer to the Publisher, below 0 it needs editing and goes to the Editor.
C11_OutOfRangeAccepted ==
    (Reviewed /\ WellTyped(reviewMsg)) =>
        /\ reviewMsg.score.v > 100 =>
              /\ Parsed(reviewMsg)
              /\ is_approved(reviewMsg) = "True"
              /\ needs_editing(reviewMsg) = "False"
              /\ Link("Reviewer", "Publisher") \in delivered
              /\ Link("Reviewer", "Editor") \notin delivered
        /\ reviewMsg.score.v < 0 =>
              /\ Parsed(reviewMsg)
              /\ needs_editing(reviewMsg) = "True"
              /\ is_approved(reviewMsg) = "False"
              /\ Link("Reviewer", "Editor") \in delivered
              /\ Link("Reviewer", "Publisher") \notin delivered

\* C11 witness: a verdict with score -1 was routed to the Editor
C11_Witness ==
    /\ Reviewed
    /\ WellTyped(reviewMsg)
    /\ reviewMsg.score = JV("int", -1)
    /\ "Editor" \in Range(trace)

\* C12: a run in which no agent fails terminates: it reaches the Summarizer,
\* having passed the Publisher on either branch, and then stops.
C12_Terminates ==
    /\ [](status = "done" =>
            /\ failedNode = "none"
            /\ inflight = {}
            /\ trace # <<>> /\ trace[Len(trace)] = "Summarizer"
            /\ "Publisher" \in Range(trace))
    /\ [][status = "done" => UNCHANGED runVars]_vars
    /\ (status = "running") ~> (status = "done" \/ failedNode # "none")

\* C12 witness: a run whose verdict did not parse has finished at the
\* Summarizer
C12_Witness ==
    /\ status = "done"
    /\ Reviewed /\ ~Parsed(reviewMsg)
    /\ trace[Len(trace)] = "Summarizer"
    /\ failedNode = "none"

\* C13 as stated: the Reviewer's text is deserialized a single time per run
\* (the code does not hold it).
C13_ParsedOnce == Reviewed => parses = 1

\* C13 amended: the Reviewer's text is deserialized once by each of the two
\* edge conditions, twice per run, only when the Reviewer's response is
\* routed, and the response is not changed afterwards.
C13_ParsedByEachCondition ==
    /\ [](parses = IF Reviewed THEN 2 ELSE 0)
    /\ [][Reviewed => reviewMsg' = reviewMsg]_vars

\* C13 witness: the run went on past the routing of a parsed verdict
C13_Witness ==
    /\ Reviewed /\ Parsed(reviewMsg)
    /\ parses = 2
    /\ Len(trace) > 2

\* the content deltas of a stream, concatenated in order
RECURSIVE ConcatDeltas(_)
ConcatDeltas(evs) ==
    IF evs = <<>> THEN <<>>
    ELSE (IF Head(evs).choices /\ ~Head(evs).isNone
          THEN Head(evs).content ELSE <<>>) \o ConcatDeltas(Tail(evs))

\* C14 (state part): the list starts with the one system message and then
\* alternates user, assistant; between turns its length is odd; from the
\* question until the stream is consumed, and after a failed call, it ends
\* with the unanswered user message; the assistant message is the
\* concatenation of the content deltas of its stream.
C14_Shape ==
    /\ Len(messages) >= 1
    /\ messages[1] = SystemMessage
    /\ \A i \in 2..Len(messages) :
          messages[i].role = IF i % 2 = 0 THEN "user" ELSE "assistant"
    /\ chatPc \in {"input", "exited"} => Len(messages) % 2 = 1
    /\ chatPc \in {"call", "stream", "call_failed"} =>
          /\ Len(messages) % 2 = 0
          /\ messages[Len(messages)].role = "user"
    /\ (chatPc = "input" /\ Len(messages) > 1) =>
          messages[Len(messages)].content = ConcatDeltas(events)

\* C14: the message list is append-only and keeps the shape above after any
\* number of turns.
C14_AppendOnlyShape ==
    /\ []C14_Shape
    /\ [][IsPrefix(messages, messages')]_vars

\* C14 witness: two turns are complete and the second answer was streamed
\* in two content deltas
C14_Witness ==
    /\ chatPc = "input"
    /\ Len(messages) = 5
    /\ Len(messages[5].content) = 2

\* C14 witness of the failed call: the second call failed and left the user
\* message unanswered
C14_FailedCall ==
    /\ chatPc = "call_failed"
    /\ Len(messages) = 4

\* the position of a filename in filenames
FileIndex(f) == CHOOSE i \in 1..Len(filenames) : filenames[i] = f

\* the objects of the written array
Written == outFile.data

\* C15: the output file is written only after every chunk of every listed
\* file has its embedding, so not after a failed extraction or embedding;
\* the written array holds objects with exactly the keys id, text and
\* embedding, ids <filename>-<k> with k counting from 1 within each file and
\* pairwise distinct, in file order and then chunk order.
C15_WrittenComplete ==
    /\ ingPc = "crashed" => ~outFile.written
    /\ outFile.written =>
        /\ ingPc = "done"
        /\ fileIdx = Len(filenames) + 1
        /\ Written = all_chunks
        /\ \A i \in 1..Len(Written) :
            /\ DOMAIN Written[i] = {"id", "text", "embedding"}
            /\ Written[i].embedding \in Embeddings
            /\ \E f \in Range(filenames) : \E k \in 1..Len(Written) :
                  Written[i].id = <<f, "-", k>>
            /\ Written[i].id[3] =
                  1 + Cardinality({j \in 1..(i - 1) :
                          Written[j].id[1] = Written[i].id[1]})
        /\ \A i, j \in 1..Len(Written) :
            i < j =>
                /\ Written[i].id # Written[j].id
                /\ \/ FileIndex(Written[i].id[1]) < FileIndex(Written[j].id[1])
                   \/ /\ Written[i].id[1] = Written[j].id[1]
                      /\ Written[i].id[3] < Written[j].id[3]

\* C15 witness: the file was written with the chunks of at least three files
C15_Witness ==
    /\ outFile.written
    /\ Len(outFile.data) >= 5

====
